---- MODULE Spec2Model ----
(***************************************************************************)
(* Model of kiloex-airdrop-checker (src/src/main.rs).                      *)
(*                                                                         *)
(* main reads data/addresses.txt and data/proxies.txt, assigns one proxy   *)
(* of a cycle to every address, runs one get_airdrop_amount_with_retry     *)
(* future per address under join_all, prints one line per address and the  *)
(* total of the successful amounts.                                        *)
(*                                                                         *)
(* Abstractions:                                                           *)
(*  - a string is a sequence of characters; f64 amounts are naturals;      *)
(*  - the upstream and the client library answer every attempt with one    *)
(*    of the values of Upstream, chosen freely per attempt;                *)
(*  - the text of a retry notice is not kept, only how many were printed   *)
(*    per address (notices);                                               *)
(*  - panics (clock before the epoch, closed stdout) are not modelled.     *)
(***************************************************************************)
EXTENDS Naturals, Sequences, FiniteSets

\* ------------------------------------------------------------------ bounds

\* Most raw lines in an input file.
MaxLines == 2

\* Most records in the data array of one response.
MaxData == 1

\* main.rs:92
MAX_RETRIES == 10

\* ------------------------------------------------------------- value sets

\* Raw lines of an input file: a blank line, a bare entry, a padded entry.
RawLines == { <<" ">>, <<"a">>, <<" ", "b", " ">> }

\* The amount field of one record.
Amounts == {1, 2}

SeqUpTo(S, n) == UNION { [1..k -> S] : k \in 0..n }

\* A file on disk: whether it can be opened, its raw lines, and the number
\* of the next_line call that fails with an I/O error (0: none fails; the
\* call after the last line is the one that meets the end of the file).
Files ==
    { [open |-> FALSE, lines |-> <<>>, failAt |-> 0] } \cup
    UNION { { [open |-> TRUE, lines |-> l, failAt |-> f] : f \in 0..(Len(l) + 1) } :
            l \in SeqUpTo(RawLines, MaxLines) }

\* Option<T>
None == [some |-> FALSE, val |-> <<>>]
Some(x) == [some |-> TRUE, val |-> x]

\* Result<T, E>; the two payload fields keep one type each.
Ok(x) == [ok |-> TRUE, val |-> x, err |-> "none"]
Err(e) == [ok |-> FALSE, val |-> 0, err |-> e]
OkLines(x) == [ok |-> TRUE, val |-> x, err |-> "none"]
ErrLines(e) == [ok |-> FALSE, val |-> <<>>, err |-> e]

\* What one attempt meets: the client cannot be built, the request or the
\* body transfer fails, the body is not of the expected shape, or the body
\* is a Response whose data holds these amounts.
Upstream ==
    { [kind |-> k, data |-> <<>>] : k \in {"build", "transport", "decode"} } \cup
    { [kind |-> "json", data |-> d] : d \in SeqUpTo(Amounts, MaxData) }

\* One line of output.
Line(k, addr, amt, e) == [kind |-> k, address |-> addr, amount |-> amt, error |-> e]

\* --------------------------------------------------------- pure functions

RECURSIVE TrimStart(_)
\* str::trim, leading part (main.rs:79)
TrimStart(s) ==
    IF s # <<>> /\ Head(s) = " " THEN TrimStart(Tail(s)) ELSE s

RECURSIVE TrimEnd(_)
\* str::trim, trailing part (main.rs:79)
TrimEnd(s) ==
    IF s # <<>> /\ s[Len(s)] = " " THEN TrimEnd(SubSeq(s, 1, Len(s) - 1)) ELSE s

trim(s) == TrimEnd(TrimStart(s))

RECURSIVE ReadLoopPartial(_, _, _)
\* A reader that swallows a read error and keeps the lines read before it.
ReadLoopPartial(file, k, contents) ==
    IF file.failAt = k THEN OkLines(contents)
    ELSE IF k > Len(file.lines) THEN OkLines(contents)
    ELSE LET trimmed == trim(file.lines[k])
         IN ReadLoopPartial(file, k + 1,
                IF trimmed # <<>> THEN Append(contents, trimmed) ELSE contents)

RECURSIVE ReadLoopRec(_, _, _)
\* The while-let loop of read_lines from its k-th next_line call on
\* (main.rs:78-83): an I/O error ends the function with Err, the end of the
\* file ends the loop, a line is trimmed and kept when not empty.
ReadLoopRec(file, k, contents) ==
    IF file.failAt = k THEN ErrLines("read")
    ELSE IF k > Len(file.lines) THEN OkLines(contents)
    ELSE LET trimmed == trim(file.lines[k])
         IN ReadLoopRec(file, k + 1,
                IF trimmed # <<>> THEN Append(contents, trimmed) ELSE contents)

ReadLoop(file, k, contents) == ReadLoopRec(file, k, contents)

\* read_lines (main.rs:72-86)
read_lines(file) ==
    IF ~file.open THEN ErrLines("open") ELSE ReadLoop(file, 1, <<>>)

RECURSIVE SeqSum(_)
\* Iterator::sum over f64 (main.rs:67, main.rs:127)
SeqSum(s) == IF s = <<>> THEN 0 ELSE Head(s) + SeqSum(Tail(s))

\* A fetcher that takes a body it cannot decode for a Response without
\* records.
get_airdrop_amount_default_zero(up) ==
    IF up.kind = "decode" THEN Ok(0)
    ELSE IF up.kind # "json" THEN Err(up.kind)
    ELSE IF up.data = <<>> THEN Ok(0)
    ELSE Ok(SeqSum(up.data))

\* A fetcher for which a Response without records is an error.
get_airdrop_amount_empty_is_error(up) ==
    IF up.kind # "json" THEN Err(up.kind)
    ELSE IF up.data = <<>> THEN Err("decode")
    ELSE Ok(SeqSum(up.data))

\* get_airdrop_amount from the client build on (main.rs:43-70)
get_airdrop_amount(up) ==
    IF up.kind # "json" THEN Err(up.kind)
    ELSE IF up.data = <<>> THEN Ok(0)
    ELSE Ok(SeqSum(up.data))

\* An iterator that is not cycled: it ends after the last proxy.
CycleNextNoWrap(orig, pos) ==
    IF pos < Len(orig) THEN [item |-> Some(orig[pos + 1]), pos |-> pos + 1]
    ELSE [item |-> None, pos |-> pos]

\* Cycle::next of proxies.into_iter().cycle() (main.rs:107, main.rs:110):
\* the inner iterator's next, and at its end a fresh copy's next.
CycleNext(orig, pos) ==
    IF pos < Len(orig) THEN [item |-> Some(orig[pos + 1]), pos |-> pos + 1]
    ELSE IF 0 < Len(orig) THEN [item |-> Some(orig[1]), pos |-> 1]
    ELSE [item |-> None, pos |-> 0]

RECURSIVE DrawProxiesReversed(_, _, _, _)
\* The closure run over the address list from its last entry to its first.
DrawProxiesReversed(orig, pos, n, acc) ==
    IF n = 0 THEN [proxy |-> acc, pos |-> pos]
    ELSE LET nx == CycleNext(orig, pos)
         IN DrawProxiesReversed(orig, nx.pos, n - 1, << nx.item >> \o acc)

RECURSIVE DrawProxies(_, _, _, _)
\* The closure of addresses.iter().map, run once per address in list order
\* when join_all collects the iterator (main.rs:109-110, main.rs:126).
\* Returns the proxies drawn and the iterator's position.
DrawProxies(orig, pos, n, acc) ==
    IF n = 0 THEN [proxy |-> acc, pos |-> pos]
    ELSE LET nx == CycleNext(orig, pos)
         IN DrawProxies(orig, nx.pos, n - 1, Append(acc, nx.item))

\* match arm `Ok(addresses) => addresses` against `Err(e) => return`
\* (main.rs:94-100), with the Err arm treated as the proxies' is.
addresses_match_lenient(res) ==
    IF res.ok THEN [abort |-> FALSE, value |-> res.val]
    ELSE [abort |-> FALSE, value |-> <<>>]

\* The Ok arm guarded like the proxies' one: an empty list ends main as an
\* unreadable file does.
addresses_match_nonempty(res) ==
    IF res.ok /\ res.val # <<>> THEN [abort |-> FALSE, value |-> res.val]
    ELSE [abort |-> TRUE, value |-> <<>>]

\* main.rs:94-100
addresses_match(res) ==
    IF res.ok THEN [abort |-> FALSE, value |-> res.val]
    ELSE [abort |-> TRUE, value |-> <<>>]

\* main.rs:102-105
proxies_match(res) ==
    IF res.ok /\ res.val # <<>> THEN res.val ELSE <<>>

\* A guard that allows one retry too many.
ShouldRetryInclusive(retries, max_retries) == retries <= max_retries

\* A guard that gives up one retry early.
ShouldRetryEarly(retries, max_retries) == retries + 1 < max_retries

\* The guard of the retrying arm (main.rs:27)
ShouldRetry(retries, max_retries) == retries < max_retries

\* An arm that retries only what may pass: an error met while the client is
\* built is final at once.
RetryArmTransient(e, retries, max_retries) ==
    e # "build" /\ ShouldRetry(retries, max_retries)

\* The arm `Err(e) if retries < max_retries` (main.rs:27): it binds the error
\* and its guard reads the counter alone.
RetryArm(e, retries, max_retries) == ShouldRetry(retries, max_retries)

\* A retry that goes round at once.
RetryStateNoDelay == "start"

\* Where the retrying arm leaves the future: in tokio::time::sleep
\* (main.rs:36).
RetryState == "sleep"

\* A retry that does not count itself.
NextRetriesStuck(retries) == retries

\* main.rs:35
NextRetries(retries) == retries + 1

\* A proxy that is moved out by the first attempt.
AttemptProxyTaken(proxy, retries) == IF retries = 0 THEN proxy ELSE None

\* proxy.clone() handed to every attempt (main.rs:25)
AttemptProxy(proxy, retries) == proxy

\* A unit that fails without a word.
FailureLinesSilent(address, e) == <<>>

\* eprintln of the Err arm of the unit (main.rs:119)
FailureLines(address, e) == << Line("Failed", address, 0, e) >>

\* println of the Ok arm of the unit (main.rs:115)
SuccessLines(address, amount) == << Line("Address", address, amount, "none") >>

Pending == [tag |-> "pending", val |-> 0]
DoneSome(x) == [tag |-> "Some", val |-> x]
DoneNone == [tag |-> "None", val |-> 0]

RECURSIVE FilterMapSumAbort(_)
\* A sum that its first None ends.
FilterMapSumAbort(rs) ==
    IF rs = <<>> \/ Head(rs).tag # "Some" THEN 0
    ELSE Head(rs).val + FilterMapSumAbort(Tail(rs))

RECURSIVE FilterMapSumRec(_)
\* results.into_iter().filter_map(|x| x).sum() (main.rs:127)
FilterMapSumRec(rs) ==
    IF rs = <<>> THEN 0
    ELSE (IF Head(rs).tag = "Some" THEN Head(rs).val ELSE 0) + FilterMapSumRec(Tail(rs))

FilterMapSum(rs) == FilterMapSumRec(rs)

\* A join that is ready only when every future has an amount.
JoinReadyAllSome(rs) == \A i \in 1..Len(rs) : rs[i].tag = "Some"

\* A join that a first failure ends (try_join_all).
JoinReadyFailFast(rs) ==
    \/ \A i \in 1..Len(rs) : rs[i].tag # "pending"
    \/ \E i \in 1..Len(rs) : rs[i].tag = "None"

\* A join that is ready as soon as one future has its output (select_all).
JoinReadyFirst(rs) == rs = <<>> \/ \E i \in 1..Len(rs) : rs[i].tag # "pending"

\* Futures awaited one after the other, in list order.
JoinPollsInOrder(st, i) == st[i] # "done" /\ \A k \in 1..(i - 1) : st[k] = "done"

\* join_all polls every future that has not completed (main.rs:126).
JoinPolls(st, i) == st[i] # "done"

\* join_all is ready when every future has its output (main.rs:126)
JoinReady(rs) == \A i \in 1..Len(rs) : rs[i].tag # "pending"

\* ------------------------------------------------------------------ state

VARIABLES
    addresses_file,  \* data/addresses.txt on disk
    proxies_file,    \* data/proxies.txt on disk
    pc,              \* where main is
    addresses,       \* main.rs:94
    proxies,         \* main.rs:102
    proxy_iter,      \* position of the cycle, main.rs:107
    proxy,           \* per address: the proxy captured by its future, main.rs:110
    state,           \* per address: where its future is
    retries,         \* per address: main.rs:23
    results,         \* per address: output of its future, main.rs:126
    attempts,        \* per address: calls of get_airdrop_amount so far
    failed,          \* per address: attempts that returned Err so far
    notices,         \* per address: retry notices printed so far, main.rs:28
    used,            \* per address: the proxies its attempts were given
    last,            \* per address: what its latest attempt met (none while one is under way)
    stdout,          \* lines printed with println
    stderr,          \* lines printed with eprintln, retry notices apart
    exit_status      \* what main returned

vars == << addresses_file, proxies_file, pc, addresses, proxies, proxy_iter,
           proxy, state, retries, results, attempts, failed, notices, used,
           last, stdout, stderr, exit_status >>

files == << addresses_file, proxies_file >>
units == << proxy, state, retries, results, attempts, failed, notices, used, last >>

NoUpstream == [kind |-> "none", data |-> <<>>]

N == Len(addresses)
Units == 1..Len(state)

Init ==
    /\ addresses_file \in Files
    /\ proxies_file \in Files
    /\ pc = "read_addresses"
    /\ addresses = <<>>
    /\ proxies = <<>>
    /\ proxy_iter = 0
    /\ proxy = <<>>
    /\ state = <<>>
    /\ retries = <<>>
    /\ results = <<>>
    /\ attempts = <<>>
    /\ failed = <<>>
    /\ notices = <<>>
    /\ used = <<>>
    /\ last = <<>>
    /\ stdout = <<>>
    /\ stderr = <<>>
    /\ exit_status = "running"

\* ---------------------------------------------------------------- actions

\* main.rs:94-100: read the address file; an error is reported and ends main
\* with Ok(()).
ReadAddresses ==
    /\ pc = "read_addresses"
    /\ LET res == read_lines(addresses_file)
           m == addresses_match(res)
       IN IF m.abort
          THEN /\ stderr' = Append(stderr, Line("ReadError", <<>>, 0, res.err))
               /\ pc' = "returned"
               /\ exit_status' = "Ok"
               /\ UNCHANGED addresses
          ELSE /\ addresses' = m.value
               /\ pc' = "read_proxies"
               /\ UNCHANGED << stderr, exit_status >>
    /\ UNCHANGED << files, proxies, proxy_iter, units, stdout >>

\* main.rs:102-107: read the proxy file, fall back to no proxies, and make
\* the cycle.
ReadProxies ==
    /\ pc = "read_proxies"
    /\ proxies' = proxies_match(read_lines(proxies_file))
    /\ proxy_iter' = 0
    /\ pc' = "dispatch"
    /\ UNCHANGED << files, addresses, units, stdout, stderr, exit_status >>

\* main.rs:109-126: join_all collects the mapped iterator, which runs the
\* closure once per address, in order: each future captures its address and
\* the next proxy of the cycle. No future has been polled yet.
Dispatch ==
    /\ pc = "dispatch"
    /\ LET d == DrawProxies(proxies, proxy_iter, Len(addresses), <<>>)
       IN /\ proxy' = d.proxy
          /\ proxy_iter' = d.pos
    /\ state' = [i \in 1..N |-> "start"]
    /\ retries' = [i \in 1..N |-> 0]
    /\ results' = [i \in 1..N |-> Pending]
    /\ attempts' = [i \in 1..N |-> 0]
    /\ failed' = [i \in 1..N |-> 0]
    /\ notices' = [i \in 1..N |-> 0]
    /\ used' = [i \in 1..N |-> {}]
    /\ last' = [i \in 1..N |-> NoUpstream]
    /\ pc' = "join_all"
    /\ UNCHANGED << files, addresses, proxies, stdout, stderr, exit_status >>

\* The match of the retry loop on the result of one attempt, and what the
\* unit does with the loop's result (main.rs:25-39, main.rs:113-121).
Conclude(i, up) ==
    LET r == get_airdrop_amount(up)
    IN IF r.ok
       THEN /\ stdout' = stdout \o SuccessLines(addresses[i], r.val)
            /\ results' = [results EXCEPT ![i] = DoneSome(r.val)]
            /\ state' = [state EXCEPT ![i] = "done"]
            /\ last' = [last EXCEPT ![i] = up]
            /\ UNCHANGED << retries, failed, notices, stderr >>
       ELSE IF RetryArm(r.err, retries[i], MAX_RETRIES)
       THEN /\ notices' = [notices EXCEPT ![i] = @ + 1]
            /\ retries' = [retries EXCEPT ![i] = NextRetries(@)]
            /\ failed' = [failed EXCEPT ![i] = @ + 1]
            /\ state' = [state EXCEPT ![i] = RetryState]
            /\ last' = [last EXCEPT ![i] = up]
            /\ UNCHANGED << results, stdout, stderr >>
       ELSE /\ stderr' = stderr \o FailureLines(addresses[i], r.err)
            /\ results' = [results EXCEPT ![i] = DoneNone]
            /\ failed' = [failed EXCEPT ![i] = @ + 1]
            /\ state' = [state EXCEPT ![i] = "done"]
            /\ last' = [last EXCEPT ![i] = up]
            /\ UNCHANGED << retries, notices, stdout >>

\* One pass of the loop up to its first await: get_airdrop_amount is called
\* with a clone of the proxy, builds its client (main.rs:44-50), which may
\* fail at once, and otherwise sends the request and suspends (main.rs:61).
BeginAttempt(i) ==
    /\ attempts' = [attempts EXCEPT ![i] = @ + 1]
    /\ used' = [used EXCEPT ![i] = @ \cup { AttemptProxy(proxy[i], retries[i]) }]
    /\ \/ Conclude(i, [kind |-> "build", data |-> <<>>])
       \/ /\ state' = [state EXCEPT ![i] = "net"]
          /\ last' = [last EXCEPT ![i] = NoUpstream]
          /\ UNCHANGED << retries, results, failed, notices, stdout, stderr >>
    /\ UNCHANGED << files, pc, addresses, proxies, proxy_iter, proxy, exit_status >>

\* join_all polls the future of address i for the first time.
Poll(i) ==
    /\ pc = "join_all"
    /\ i \in Units
    /\ JoinPolls(state, i)
    /\ state[i] = "start"
    /\ BeginAttempt(i)

\* The one-second sleep of address i is over (main.rs:36): the loop goes round.
Wake(i) ==
    /\ pc = "join_all"
    /\ i \in Units
    /\ JoinPolls(state, i)
    /\ state[i] = "sleep"
    /\ BeginAttempt(i)

\* The network call of address i resolves (main.rs:61): the request or the
\* body fails, or a Response is decoded.
Respond(i) ==
    /\ pc = "join_all"
    /\ i \in Units
    /\ JoinPolls(state, i)
    /\ state[i] = "net"
    /\ \E up \in { u \in Upstream : u.kind # "build" } : Conclude(i, up)
    /\ UNCHANGED << files, pc, addresses, proxies, proxy_iter, proxy, attempts,
                    used, exit_status >>

\* A total kept in one shared cell that every finishing unit overwrites: the
\* amount of the success line printed last.
FinishLastWins ==
    /\ pc = "join_all"
    /\ JoinReady(results)
    /\ LET ok == { n \in 1..Len(stdout) : stdout[n].kind = "Address" }
           top == IF ok = {} THEN 0
                  ELSE stdout[CHOOSE n \in ok : \A m \in ok : m <= n].amount
       IN stdout' = Append(stdout, Line("Total", <<>>, top, "none"))
    /\ pc' = "returned"
    /\ exit_status' = "Ok"
    /\ UNCHANGED << files, addresses, proxies, proxy_iter, units, stderr >>

\* main.rs:126-130: join_all is ready; the amounts are summed, the total is
\* printed and main returns Ok(()).
Finish ==
    /\ pc = "join_all"
    /\ JoinReady(results)
    /\ stdout' = Append(stdout, Line("Total", <<>>, FilterMapSum(results), "none"))
    /\ pc' = "returned"
    /\ exit_status' = "Ok"
    /\ UNCHANGED << files, addresses, proxies, proxy_iter, units, stderr >>

Next ==
    \/ ReadAddresses
    \/ ReadProxies
    \/ Dispatch
    \/ \E i \in Units : Poll(i)
    \/ \E i \in Units : Wake(i)
    \/ \E i \in Units : Respond(i)
    \/ Finish

Spec == Init /\ [][Next]_vars

\* What the runtime guarantees: main runs on when it can, a future that is
\* ready to be polled is polled, a timer that was set fires. Nothing in the
\* program makes a network call resolve (the client has no timeout).
MainStep == ReadAddresses \/ ReadProxies \/ Dispatch \/ Finish

\* The proxy file bears on termination only through the proxy handed to
\* each attempt: the runs checked for termination keep the missing file and
\* the files of at most one line.
FairInit ==
    /\ Init
    /\ proxies_file.failAt = 0
    /\ Len(proxies_file.lines) <= 1

FairSpec ==
    /\ FairInit
    /\ [][Next]_vars
    /\ WF_vars(MainStep)
    /\ \A i \in 1..MaxLines : WF_vars(Poll(i) \/ Wake(i))

\* Every network call resolves, with a response or with an error.
NetworkAnswers == \A i \in 1..MaxLines : WF_vars(Respond(i))

\* ------------------------------------------------- vocabulary of the claims

AddressFileReadable == addresses_file.open /\ addresses_file.failAt = 0

NonBlank(line) == \E k \in 1..Len(line) : line[k] # " "

NonBlankCount(file) == Cardinality({ k \in 1..Len(file.lines) : NonBlank(file.lines[k]) })

ProxyFileUnusable ==
    \/ ~proxies_file.open
    \/ proxies_file.failAt # 0
    \/ NonBlankCount(proxies_file) = 0

Dispatched == pc \in {"join_all", "returned"} /\ Len(state) = Len(addresses)

Returned == pc = "returned"

\* The lines of a stream that are of kind k and name address a.
LinesOf(stream, k, a) ==
    { n \in 1..Len(stream) : stream[n].kind = k /\ stream[n].address = a }

KindLines(stream, k) == { n \in 1..Len(stream) : stream[n].kind = k }

\* The entries of the address list that name address a and ended with tag t.
EntriesOf(a, t) == { i \in Units : addresses[i] = a /\ results[i].tag = t }

\* The sum of the amounts of a data array, from its last record to its first.
DataTotal(d) ==
    LET f[k \in 0..Len(d)] == IF k = 0 THEN 0 ELSE f[k - 1] + d[Len(d) + 1 - k]
    IN f[Len(d)]

\* The sum of the amounts printed on the per-address lines of stdout.
PrintedAmounts ==
    LET f[k \in 0..Len(stdout)] ==
            IF k = 0 THEN 0
            ELSE f[k - 1] + (IF stdout[k].kind = "Address" THEN stdout[k].amount ELSE 0)
    IN f[Len(stdout)]

\* The sum, over the entries whose loop ended on a Response, of its amounts.
SucceededAmounts ==
    LET f[k \in 0..Len(last)] ==
            IF k = 0 THEN 0
            ELSE f[k - 1] + (IF last[k].kind = "json" THEN DataTotal(last[k].data) ELSE 0)
    IN f[Len(last)]

TotalPrinted == Cardinality(KindLines(stdout, "Total")) = 1

AllTerminal == Len(state) = Len(addresses) /\ \A i \in Units : state[i] = "done"

\* ----------------------------------------------------------------- claims

\* C1: when the address file is readable and main has returned, the address
\* list holds the non-blank lines of the file, every entry has ended with an
\* amount or with a failure, and for every address there are as many success
\* lines as entries of it that ended with an amount and as many failure
\* lines as entries of it that ended with a failure: one terminal line per
\* entry, whatever the number of retries.
C1_OneTerminalLinePerEntry ==
    (Returned /\ AddressFileReadable) =>
        /\ Len(addresses) = NonBlankCount(addresses_file)
        /\ Len(results) = Len(addresses)
        /\ \A i \in Units : results[i].tag \in {"Some", "None"}
        /\ \A a \in { trim(l) : l \in RawLines } :
              /\ Cardinality(LinesOf(stdout, "Address", a)) = Cardinality(EntriesOf(a, "Some"))
              /\ Cardinality(LinesOf(stderr, "Failed", a)) = Cardinality(EntriesOf(a, "None"))
              /\ LinesOf(stderr, "Address", a) = {}
              /\ LinesOf(stdout, "Failed", a) = {}
        /\ Cardinality(KindLines(stdout, "Address")) + Cardinality(KindLines(stderr, "Failed"))
              = Len(addresses)

\* C1 witness: an address listed twice, one entry of it ended with an amount
\* after retries, the other with a failure.
C1_Witness ==
    /\ Returned
    /\ Len(addresses) = 2
    /\ addresses[1] = addresses[2]
    /\ results[1].tag = "Some"
    /\ notices[1] >= 2
    /\ results[2].tag = "None"

\* C2: the total on the final line is the sum of the amounts printed on the
\* success lines, which is the sum of the amounts of the responses that ended
\* the loops of the entries that succeeded; an entry that failed adds nothing
\* and does not end the sum.
C2_TotalIsSumOfSuccesses ==
    (Returned /\ AddressFileReadable) =>
        /\ Len(stdout) >= 1
        /\ stdout[Len(stdout)].kind = "Total"
        /\ stdout[Len(stdout)].amount = PrintedAmounts
        /\ stdout[Len(stdout)].amount = SucceededAmounts
        /\ \A i \in Units : results[i].tag = "None" => last[i].kind # "json"

\* C2 witness: the first entry failed, the second succeeded with a positive
\* amount, and the total is that amount.
C2_Witness ==
    /\ Returned
    /\ Len(addresses) = 2
    /\ results[1].tag = "None"
    /\ results[2].tag = "Some"
    /\ results[2].val = 2
    /\ stdout[Len(stdout)].amount = 2

\* C3: no address is attempted more than MAX_RETRIES + 1 times; an entry that
\* is done and whose every attempt failed was attempted exactly
\* MAX_RETRIES + 1 times, ended with a failure, has a failure line and no
\* amount, and the total counts only the success lines.
C3_AlwaysFailingAddress ==
    \A i \in Units :
        /\ attempts[i] <= MAX_RETRIES + 1
        /\ (state[i] = "done" /\ failed[i] = attempts[i]) =>
              /\ attempts[i] = MAX_RETRIES + 1
              /\ results[i] = DoneNone
              /\ LinesOf(stderr, "Failed", addresses[i]) # {}
              /\ Cardinality(KindLines(stdout, "Address"))
                    = Cardinality({ j \in Units : results[j].tag = "Some" })
              /\ Returned => stdout[Len(stdout)].amount = PrintedAmounts

\* C3 witness: main has returned and an entry failed on all of its eleven
\* attempts.
C3_Witness ==
    /\ Returned
    /\ \E i \in Units :
          /\ state[i] = "done"
          /\ failed[i] = attempts[i]
          /\ attempts[i] = 11

\* C4: an entry that is done after at most MAX_RETRIES failed attempts has
\* succeeded: its loop ended on a Response, its amount is the sum of that
\* response's amounts and is on a success line, it printed one retry notice
\* per failed attempt and made one attempt more than failed; and an entry
\* that is done makes no further attempt and stays done.
C4_SuccessAfterKFailures ==
    /\ [](\A i \in Units :
            (state[i] = "done" /\ failed[i] <= MAX_RETRIES) =>
                /\ last[i].kind = "json"
                /\ results[i] = DoneSome(DataTotal(last[i].data))
                /\ \E n \in LinesOf(stdout, "Address", addresses[i]) :
                      stdout[n].amount = DataTotal(last[i].data)
                /\ notices[i] = failed[i]
                /\ attempts[i] = failed[i] + 1)
    /\ [][\A i \in Units :
            state[i] = "done" =>
                /\ state'[i] = "done"
                /\ attempts'[i] = attempts[i]
                /\ notices'[i] = notices[i]
                /\ results'[i] = results[i]]_vars

\* C4 witness: an entry failed ten times and then succeeded with the amount
\* of its eleventh attempt, while the other entry is still at work.
C4_Witness ==
    \E i \in Units :
        /\ state[i] = "done"
        /\ failed[i] = MAX_RETRIES
        /\ attempts[i] = MAX_RETRIES + 1
        /\ results[i] = DoneSome(2)
        /\ \E j \in Units : state[j] = "sleep"

\* C5: once the futures are made, every entry of the address list has a
\* proxy assignment; with a non-empty proxy list of size P the entry at
\* 0-based index i has the proxy at 0-based index i mod P, and with an empty
\* proxy list every entry has none.
C5_ProxyRoundRobin ==
    Dispatched =>
        /\ Len(proxy) = Len(addresses)
        /\ \A n \in 1..Len(addresses) :
              IF proxies # <<>>
              THEN proxy[n] = Some(proxies[((n - 1) % Len(proxies)) + 1])
              ELSE proxy[n] = None

\* C5 witness: two addresses and one proxy, so that the second address wraps
\* round to the first proxy.
C5_Witness ==
    /\ Dispatched
    /\ Len(addresses) = 2
    /\ Len(proxies) = 1
    /\ proxy[2] = Some(proxies[1])

\* C6: every attempt of an entry was given the proxy assigned to that entry
\* at dispatch, and no step of any future changes an assignment.
C6_SameProxyForAllAttempts ==
    /\ [](\A i \in Units :
            /\ used[i] \subseteq { proxy[i] }
            /\ attempts[i] > 0 => used[i] = { proxy[i] })
    /\ [][pc = "join_all" => proxy' = proxy]_vars

\* C6 witness: two entries with different proxies, both retried.
C6_Witness ==
    /\ Len(state) = 2
    /\ proxy[1].some
    /\ proxy[2].some
    /\ proxy[1] # proxy[2]
    /\ attempts[1] >= 3
    /\ attempts[2] >= 2
    /\ used[1] = { proxy[1] }
    /\ used[2] = { proxy[2] }

BatchComplete == AllTerminal /\ TotalPrinted /\ Returned

\* C7 as claimed: when the address file is readable, every entry eventually
\* reaches its terminal outcome and the total line is eventually printed.
C7_BatchAlwaysCompletes == AddressFileReadable ~> BatchComplete

\* C7 as amended: the same, in the runs in which every network call
\* resolves.
C7_BatchCompletesIfNetworkAnswers ==
    NetworkAnswers => (AddressFileReadable ~> BatchComplete)

\* C7 witness: the batch is complete, one entry having used all its retries
\* and the other having succeeded after retries.
C7_Witness ==
    /\ BatchComplete
    /\ Len(state) = 2
    /\ attempts[1] = MAX_RETRIES + 1
    /\ results[1].tag = "None"
    /\ results[2].tag = "Some"
    /\ attempts[2] >= 2

\* The fields of the future of entry j.
UnitOf(j) ==
    << proxy[j], state[j], retries[j], results[j], attempts[j], failed[j],
       notices[j], used[j], last[j] >>

\* C8: a step of one future leaves every other future as it was; while main
\* waits in join_all, every future that is not done can take its next step,
\* whatever the others ended with; an entry's outcome is what its own
\* attempts make it (an amount when its loop ended on a Response, a failure
\* when MAX_RETRIES + 1 of its attempts failed); and when main has returned
\* after a readable address file, every entry is done, the total line is
\* printed and the exit status is success.
C8_FailureDoesNotAffectOthers ==
    /\ [](pc = "join_all" =>
            \A j \in Units :
                state[j] # "done" => ENABLED (Poll(j) \/ Wake(j) \/ Respond(j)))
    /\ [](\A j \in Units :
            state[j] = "done" =>
                IF last[j].kind = "json"
                THEN results[j] = DoneSome(DataTotal(last[j].data))
                ELSE results[j] = DoneNone /\ failed[j] = MAX_RETRIES + 1)
    /\ []((Returned /\ AddressFileReadable) =>
            AllTerminal /\ TotalPrinted /\ exit_status = "Ok")
    /\ [][\A i \in Units :
            (Len(state') = Len(state) /\ UnitOf(i)' # UnitOf(i)) =>
                \A j \in Units \ {i} : UnitOf(j)' = UnitOf(j)]_vars
    /\ [][(\E i \in Units : results[i].tag = "None" /\ ~Returned /\ Returned') =>
            (AllTerminal /\ TotalPrinted' /\ exit_status' = "Ok")]_vars

\* C8 witness: the first entry failed for good before the second made its
\* first attempt; the second then succeeded after a retry, and main returned
\* with the total.
C8_Witness ==
    /\ Returned
    /\ Len(state) = 2
    /\ results[1].tag = "None"
    /\ results[2] = DoneSome(1)
    /\ failed[2] = 1
    /\ stderr # <<>>
    /\ stdout[Len(stdout)].kind = "Total"
    /\ stdout[Len(stdout)].amount = 1
    /\ exit_status = "Ok"

\* C9: when the address file cannot be opened or read, no future is ever
\* made and no attempt started, nothing is printed on stdout, the only
\* diagnostic is the one of the read error, and main returns success right
\* after reading.
C9_UnreadableAddressFile ==
    ~AddressFileReadable =>
        /\ pc \in {"read_addresses", "returned"}
        /\ state = <<>>
        /\ attempts = <<>>
        /\ stdout = <<>>
        /\ KindLines(stderr, "ReadError") = 1..Len(stderr)
        /\ Returned => (Len(stderr) = 1 /\ exit_status = "Ok")

\* C9 witness: the address file opened and held an address, but its second
\* read failed, and main has returned.
C9_Witness ==
    /\ addresses_file.open
    /\ addresses_file.failAt = 2
    /\ NonBlankCount(addresses_file) >= 1
    /\ Returned
    /\ Len(stderr) = 1

\* C10: when the proxy file is missing, fails to be read at any line, or
\* holds no non-blank line, and the address file is readable, the run goes
\* on: the proxy list is empty, every non-blank line of the address file gets
\* a future with no proxy, every attempt is made with no proxy, no read
\* error is reported, and main returns with one terminal line per address
\* and the total line.
C10_UnusableProxyFile ==
    (ProxyFileUnusable /\ AddressFileReadable) =>
        /\ pc \notin {"read_addresses", "read_proxies"} => proxies = <<>>
        /\ KindLines(stderr, "ReadError") = {}
        /\ Dispatched =>
              /\ Len(proxy) = NonBlankCount(addresses_file)
              /\ \A i \in Units : proxy[i] = None /\ used[i] \subseteq {None}
        /\ Returned =>
              /\ Dispatched
              /\ TotalPrinted
              /\ Cardinality(KindLines(stdout, "Address"))
                    + Cardinality(KindLines(stderr, "Failed")) = NonBlankCount(addresses_file)

\* C10 witness: the proxy file held a proxy on its first line and its second
\* read failed; both addresses were attempted without a proxy and main has
\* returned.
C10_Witness ==
    /\ proxies_file.open
    /\ proxies_file.failAt = 2
    /\ NonBlankCount(proxies_file) >= 1
    /\ Returned
    /\ Len(state) = 2
    /\ \A i \in Units : used[i] = {None}

\* The sum of the amounts of the entries that ended with an amount, taken
\* over the address list from its last entry to its first.
OutcomeTotal ==
    LET f[k \in 0..Len(results)] ==
            IF k = 0 THEN 0
            ELSE f[k - 1] + (IF results[Len(results) + 1 - k].tag = "Some"
                             THEN results[Len(results) + 1 - k].val ELSE 0)
    IN f[Len(results)]

\* C11: the printed total is a function of the per-entry final outcomes
\* alone: whatever the order in which the futures completed (the order of
\* the success lines on stdout), main returns with every entry done and the
\* total equal to the sum of the entries' amounts taken over the address
\* list.
C11_TotalIndependentOfCompletionOrder ==
    (Returned /\ AddressFileReadable) =>
        /\ AllTerminal
        /\ TotalPrinted
        /\ \A n \in KindLines(stdout, "Total") : stdout[n].amount = OutcomeTotal

\* C11 witness: the second entry completed before the first, with a
\* different amount, and the total is the sum of both.
C11_Witness ==
    /\ Returned
    /\ Len(results) = 2
    /\ results[1] = DoneSome(1)
    /\ results[2] = DoneSome(2)
    /\ Len(stdout) = 3
    /\ stdout[1].amount = 2
    /\ stdout[2].amount = 1
    /\ stdout[3].amount = 3

C13_AssignmentPrecedesDispatch ==
    /\ [](pc \in {"read_addresses", "read_proxies", "dispatch"} =>
            state = <<>> /\ attempts = <<>> /\ proxy_iter = 0)
    /\ []((\E i \in Units : attempts[i] > 0 \/ state[i] # "start") =>
            /\ Len(proxy) = Len(addresses)
            /\ proxies # <<>> =>
                  /\ proxy[1] = Some(proxies[1])
                  /\ \A n \in 1..(Len(proxy) - 1) :
                        \E k \in 1..Len(proxies) :
                            /\ proxy[n] = Some(proxies[k])
                            /\ proxy[n + 1] = Some(proxies[(k % Len(proxies)) + 1])
                  /\ proxy[Len(proxy)] = Some(proxies[proxy_iter])
            /\ proxies = <<>> => proxy_iter = 0)
    /\ [][(proxy_iter' # proxy_iter \/ proxy' # proxy) =>
            /\ pc = "dispatch"
            /\ pc' = "join_all"
            /\ \A i \in 1..Len(attempts') : attempts'[i] = 0 /\ state'[i] = "start"]_vars

\* C13 witness: two addresses and two different proxies; the first entry is
\* in its third attempt while the second, not yet polled, already holds the
\* second proxy.
C13_Witness ==
    /\ pc = "join_all"
    /\ Len(state) = 2
    /\ Len(proxies) = 2
    /\ proxies[1] # proxies[2]
    /\ attempts[1] = 3
    /\ state[2] = "start"
    /\ attempts[2] = 0
    /\ proxy[2] = Some(proxies[2])
    /\ proxy_iter = 2

\* C14: stdout never holds more than one total line; once it holds one,
\* every entry is done, the total line is the last line of stdout, and no
\* step prints a line, prints a retry notice, starts an attempt or changes a
\* future any more.
C14_TotalLineLastAndOnce ==
    /\ [](Cardinality(KindLines(stdout, "Total")) <= 1)
    /\ [](KindLines(stdout, "Total") # {} =>
            /\ Returned
            /\ Len(state) = Len(addresses)
            /\ \A i \in Units : state[i] = "done"
            /\ KindLines(stdout, "Total") = { Len(stdout) })
    /\ [][KindLines(stdout, "Total") # {} =>
            /\ stdout' = stdout
            /\ stderr' = stderr
            /\ notices' = notices
            /\ attempts' = attempts
            /\ state' = state]_vars
    /\ [](Returned /\ AddressFileReadable => TotalPrinted)

\* C14 witness: the total line follows a success line and a failure line
\* of two entries that both were retried.
C14_Witness ==
    /\ Returned
    /\ Len(state) = 2
    /\ Len(stdout) = 2
    /\ stdout[1].kind = "Address"
    /\ stdout[2].kind = "Total"
    /\ Len(stderr) = 1
    /\ stderr[1].kind = "Failed"
    /\ \A i \in Units : notices[i] >= 1

\* C15: a failed attempt made with fewer than MAX_RETRIES retries used
\* prints one retry notice, counts one retry and leaves the future in its
\* delay, with no failure line; the delay ends only by the start of the next
\* attempt, and every attempt but the first starts from a delay; a failed
\* attempt made with MAX_RETRIES retries used prints no notice, starts no
\* delay, ends the future with a failure, and the failure line carries the
\* error that this very attempt met.
C15_NoticeDelayAttemptOrder ==
    /\ [][\A i \in Units :
            failed'[i] = failed[i] + 1 =>
                IF retries[i] < MAX_RETRIES
                THEN /\ notices'[i] = notices[i] + 1
                     /\ retries'[i] = retries[i] + 1
                     /\ state'[i] = "sleep"
                     /\ results'[i] = Pending
                     /\ stderr' = stderr
                ELSE /\ notices'[i] = notices[i]
                     /\ state'[i] = "done"
                     /\ results'[i] = DoneNone
                     /\ last'[i].kind \in {"build", "transport", "decode"}
                     /\ stderr' = Append(stderr,
                            Line("Failed", addresses[i], 0, last'[i].kind))]_vars
    /\ [][\A i \in Units :
            /\ (state[i] = "sleep" /\ state'[i] # state[i]) =>
                  attempts'[i] = attempts[i] + 1
            /\ (attempts'[i] # attempts[i] /\ attempts[i] >= 1) =>
                  state[i] = "sleep" /\ attempts'[i] = attempts[i] + 1]_vars
    /\ [](\A i \in Units :
            state[i] = "sleep" =>
                /\ notices[i] = attempts[i]
                /\ failed[i] = attempts[i]
                /\ retries[i] = attempts[i])

\* C15 witness: an entry used all its retries, its last attempt met a decode
\* error, and that error is on its failure line; ten notices were printed.
C15_Witness ==
    \E i \in Units :
        /\ state[i] = "done"
        /\ results[i] = DoneNone
        /\ notices[i] = MAX_RETRIES
        /\ attempts[i] = MAX_RETRIES + 1
        /\ last[i].kind = "decode"
        /\ stderr = << Line("Failed", addresses[i], 0, "decode") >>

ErrorKinds == {"build", "transport", "decode"}

\* C16: an entry has an amount only if its latest attempt met a Response,
\* and there are as many success lines as such entries; an attempt that
\* meets a build, transport or decode error counts as failed, gives the
\* entry no amount and prints nothing on stdout; when no entry met a
\* Response, stdout holds nothing but the total line, with 0.
C16_NoSilentZero ==
    /\ [](\A i \in Units :
            /\ results[i].tag = "Some" => last[i].kind = "json"
            /\ last[i].kind \in ErrorKinds => results[i].tag # "Some")
    /\ [](Cardinality(KindLines(stdout, "Address"))
            = Cardinality({ i \in Units : last[i].kind = "json" }))
    /\ [][\A i \in Units :
            (last'[i] # last[i] /\ last'[i].kind \in ErrorKinds) =>
                /\ failed'[i] = failed[i] + 1
                /\ results'[i].tag # "Some"
                /\ stdout' = stdout]_vars
    /\ []((Returned /\ AddressFileReadable /\ \A i \in Units : last[i].kind # "json") =>
            stdout = << Line("Total", <<>>, 0, "none") >>)

\* C16 witness: one entry failed for good on a transport error and has no
\* amount; the other met errors first and then a Response without records,
\* and has amount 0.
C16_Witness ==
    /\ Returned
    /\ Len(state) = 2
    /\ results[1] = DoneNone
    /\ last[1].kind = "transport"
    /\ results[2] = DoneSome(0)
    /\ failed[2] >= 1
    /\ last[2] = [kind |-> "json", data |-> <<>>]
    /\ Len(stdout) = 2

Suspended(i) == state[i] \in {"net", "sleep"}

\* C17: while main waits in join_all and some future is suspended in its
\* network call or in its delay, every other future that is not done can
\* take its next step, and that step leaves the suspended future as it is.
C17_SuspensionDoesNotBlock ==
    /\ [](pc = "join_all" =>
            \A i \in Units :
                Suspended(i) =>
                    \A j \in Units \ {i} :
                        /\ state[j] = "start" => ENABLED Poll(j)
                        /\ state[j] = "sleep" => ENABLED Wake(j)
                        /\ state[j] = "net" => ENABLED Respond(j))
    /\ [][\A i \in Units :
            (Suspended(i) /\ \E j \in Units \ {i} : UnitOf(j)' # UnitOf(j)) =>
                UnitOf(i)' = UnitOf(i)]_vars

\* C17 witness: both futures are suspended in their network calls at the
\* same time, the second one in a later attempt than the first.
C17_Witness ==
    /\ pc = "join_all"
    /\ Len(state) = 2
    /\ \A i \in Units : state[i] = "net"
    /\ attempts[1] = 1
    /\ attempts[Len(state)] = 2

\* C18: an attempt that fails is retried exactly when fewer than
\* MAX_RETRIES retries have been used, whichever of the build, transport
\* and decode errors it met: the retry counts one retry, prints one notice
\* and starts the delay, and otherwise the future ends with a failure.
C18_EveryErrorRetriedAlike ==
    /\ [][\A i \in Units : \A k \in ErrorKinds :
            (last'[i] # last[i] /\ last'[i].kind = k) =>
                /\ failed'[i] = failed[i] + 1
                /\ (state'[i] = "sleep") <=> (retries[i] < MAX_RETRIES)
                /\ (state'[i] = "done") <=> (retries[i] = MAX_RETRIES)
                /\ state'[i] = "sleep" =>
                      /\ retries'[i] = retries[i] + 1
                      /\ notices'[i] = notices[i] + 1
                /\ state'[i] = "done" => results'[i] = DoneNone]_vars
    /\ [](\A i \in Units :
            last[i].kind \in ErrorKinds =>
                /\ failed[i] = attempts[i]
                /\ retries[i] = notices[i]
                /\ state[i] = "sleep" => retries[i] = failed[i]
                /\ state[i] = "done" => failed[i] = MAX_RETRIES + 1)

\* C18 witness: the tenth attempt of an entry failed while its client was
\* built; it was counted as the tenth retry and the future is in its delay.
C18_Witness ==
    \E i \in Units :
        /\ state[i] = "sleep"
        /\ last[i].kind = "build"
        /\ attempts[i] = MAX_RETRIES
        /\ retries[i] = MAX_RETRIES
        /\ notices[i] = MAX_RETRIES

AddressFileBlank == AddressFileReadable /\ NonBlankCount(addresses_file) = 0

\* C19: when the address file is readable and holds no non-blank line, main
\* goes on past the reading: there is never a future nor an attempt, nothing
\* is printed on stderr, no per-address line is printed, and main returns
\* success with stdout holding exactly the total line, with total 0.
C19_BlankAddressFile ==
    AddressFileBlank =>
        /\ addresses = <<>>
        /\ state = <<>>
        /\ attempts = <<>>
        /\ stderr = <<>>
        /\ KindLines(stdout, "Address") = {}
        /\ ~Returned => stdout = <<>> /\ exit_status = "running"
        /\ Returned =>
              /\ stdout = << Line("Total", <<>>, 0, "none") >>
              /\ exit_status = "Ok"

\* C19 witness: an address file of two blank lines and a proxy file with a
\* proxy; main has returned after the total line.
C19_Witness ==
    /\ addresses_file.open
    /\ addresses_file.failAt = 0
    /\ Len(addresses_file.lines) = 2
    /\ NonBlankCount(addresses_file) = 0
    /\ proxies # <<>>
    /\ Returned
    /\ Len(stdout) = 1
    /\ stdout[1].kind = "Total"

====
